---- MODULE Spec2Model ----
(***************************************************************************)
(* A model of the catalog / inventory reconciliation pipeline of main.py:  *)
(* load_duoplane_mapping, load_inventory_data and                          *)
(* clean_and_aggregate_magento_csv, with the helpers extract_pack_size,    *)
(* should_generate_canonical_name and generate_canonical_name.             *)
(*                                                                         *)
(* Text is a sequence of one-character strings, so that strip(), lower(),  *)
(* the regular expressions, the numeric parsing and the f-string           *)
(* formatting are computed and not assumed.  The three input files are     *)
(* chosen in the initial state; every loop iteration of the program is one *)
(* action.                                                                 *)
(***************************************************************************)
EXTENDS Integers, Sequences, FiniteSets, TLC

VARIABLES
    pc,                       \* the loop (or statement) the program is at
    i,                        \* index of the next element of the current loop
    dp_file,                  \* rows of the DuoPlane csv (input)
    inv_file,                 \* rows of the inventory csv (input)
    cat_file,                 \* rows of the Magento csv (input)
    vendor_to_retail_map,     \* dict vendor_sku -> retail_sku
    inventory_rows,           \* list built by the first inventory pass
    upc_to_sku_map,           \* dict upc -> first vendor_sku seen with it
    duplicate_upcs,           \* set of upcs seen more than once
    inventory_sku_map,        \* ordered dict, as a list of records
    duplicate_count,
    duplicate_skus,
    parent_products,          \* dict sku -> row
    simple_products,          \* list of rows
    processed_inventory_skus, \* set
    products_by_key,          \* ordered dict canonical_name -> rows
    standalone_products,
    grouped_products,
    all_rows_to_write,        \* the rows written to the output file
    product_name,             \* arguments and result of a lone call of
    unit_per_pack_str,        \*   extract_pack_size
    pack_size

vars == <<pc, i, dp_file, inv_file, cat_file, vendor_to_retail_map,
          inventory_rows, upc_to_sku_map, duplicate_upcs, inventory_sku_map,
          duplicate_count, duplicate_skus, parent_products, simple_products,
          processed_inventory_skus, products_by_key, standalone_products,
          grouped_products, all_rows_to_write, product_name,
          unit_per_pack_str, pack_size>>

----------------------------------------------------------------------------
(* Text *)

Digits == {"0", "1", "2", "3", "4", "5", "6", "7", "8", "9"}

Whitespace == {" ", "\t"}

DigitVal(c) ==
    CASE c = "0" -> 0 [] c = "1" -> 1 [] c = "2" -> 2 [] c = "3" -> 3
      [] c = "4" -> 4 [] c = "5" -> 5 [] c = "6" -> 6 [] c = "7" -> 7
      [] c = "8" -> 8 [] c = "9" -> 9

DigitChar(d) ==
    CASE d = 0 -> "0" [] d = 1 -> "1" [] d = 2 -> "2" [] d = 3 -> "3"
      [] d = 4 -> "4" [] d = 5 -> "5" [] d = 6 -> "6" [] d = 7 -> "7"
      [] d = 8 -> "8" [] d = 9 -> "9"

\* str.lower() of one character (the letters the inputs use in upper case).
LowerChar(c) ==
    CASE c = "A" -> "a" [] c = "C" -> "c" [] c = "E" -> "e" [] c = "G" -> "g"
      [] c = "I" -> "i" [] c = "K" -> "k" [] c = "L" -> "l" [] c = "M" -> "m"
      [] c = "N" -> "n" [] c = "O" -> "o" [] c = "P" -> "p" [] c = "S" -> "s"
      [] c = "T" -> "t" [] c = "V" -> "v" [] c = "W" -> "w"
      [] OTHER -> c

Lower(s) == [k \in 1..Len(s) |-> LowerChar(s[k])]

\* str.strip(): leading and trailing whitespace removed.
Strip(s) ==
    LET keep == {k \in 1..Len(s) : s[k] \notin Whitespace}
    IN  IF keep = {} THEN <<>>
        ELSE LET lo == CHOOSE k \in keep : \A m \in keep : k <= m
                 hi == CHOOSE k \in keep : \A m \in keep : m <= k
             IN  SubSeq(s, lo, hi)

\* int() of a string of decimal digits.
RECURSIVE DecVal(_)
DecVal(s) ==
    IF s = <<>> THEN 0
    ELSE 10 * DecVal(SubSeq(s, 1, Len(s) - 1)) + DigitVal(s[Len(s)])

\* str() of a natural number.
RECURSIVE DecStr(_)
DecStr(n) ==
    IF n < 10 THEN <<DigitChar(n)>>
    ELSE Append(DecStr(n \div 10), DigitChar(n % 10))

\* str() of an integer.
IntStr(n) == IF n < 0 THEN <<"-">> \o DecStr(0 - n) ELSE DecStr(n)

AllDigits(s, lo, hi) == \A k \in lo..hi : s[k] \in Digits

----------------------------------------------------------------------------
(* extract_pack_size *)

None == -1

sSingleDisposable ==
    <<"s","i","n","g","l","e"," ","d","i","s","p","o","s","a","b","l","e">>

sSingle == <<"s","i","n","g","l","e">>

sOne == <<"o","n","e">>

\* The literal "ack" preceded by [Pp] at position p of s.
PackWordAt(s, p) ==
    /\ p >= 1
    /\ p + 3 <= Len(s)
    /\ s[p] \in {"P", "p"}
    /\ s[p + 1] = "a"
    /\ s[p + 2] = "c"
    /\ s[p + 3] = "k"

\* (\d+)[- ]?[Pp]ack matches at position b with the group (\d+) = s[b..e].
PackMatch(s, b, e) ==
    /\ 1 <= b
    /\ b <= e
    /\ e <= Len(s)
    /\ AllDigits(s, b, e)
    /\ \/ PackWordAt(s, e + 1)
       \/ e + 1 <= Len(s) /\ s[e + 1] \in {"-", " "} /\ PackWordAt(s, e + 2)

\* re.search(r'(\d+)[- ]?[Pp]ack', s): the leftmost match, its group as long
\* as it can be; int(group(1)), or None.
SearchPack(s) ==
    LET ms == {m \in (1..Len(s)) \X (1..Len(s)) : PackMatch(s, m[1], m[2])}
    IN  IF ms = {} THEN None
        ELSE LET b == CHOOSE x \in {m[1] : m \in ms} :
                          \A m \in ms : x <= m[1]
                 e == CHOOSE x \in {m[2] : m \in ms} :
                          /\ <<b, x>> \in ms
                          /\ \A m \in ms : m[1] = b => m[2] <= x
             IN  DecVal(SubSeq(s, b, e))

\* re.search(r'(\d+)', s): the leftmost run of digits, whole; or None.
SearchDigits(s) ==
    LET ds == {k \in 1..Len(s) : s[k] \in Digits}
    IN  IF ds = {} THEN None
        ELSE LET b == CHOOSE k \in ds : \A m \in ds : k <= m
                 e == CHOOSE k \in b..Len(s) :
                          /\ AllDigits(s, b, k)
                          /\ (k = Len(s) \/ s[k + 1] \notin Digits)
             IN  DecVal(SubSeq(s, b, e))

\* extract_pack_size with the two searches in the other order.
extract_pack_size_unit_first(name, unit) ==
    IF Lower(Strip(unit)) \in {sSingleDisposable, sSingle, sOne} THEN 1
    ELSE IF unit # <<>> /\ SearchDigits(unit) # None THEN SearchDigits(unit)
    ELSE IF SearchPack(name) # None THEN SearchPack(name)
    ELSE 1

extract_pack_size(name, unit) ==
    IF Lower(Strip(unit)) \in {sSingleDisposable, sSingle, sOne} THEN 1
    ELSE IF SearchPack(name) # None THEN SearchPack(name)
    ELSE IF unit # <<>> /\ SearchDigits(unit) # None THEN SearchDigits(unit)
    ELSE 1

----------------------------------------------------------------------------
(* Dictionaries and numbers *)

EmptyDict == [k \in {} |-> <<>>]

DictSet(d, k, v) == [x \in DOMAIN d \cup {k} |-> IF x = k THEN v ELSE d[x]]

Max(a, b) == IF a >= b THEN a ELSE b

sInf == <<"i", "n", "f">>

\* int(float(s)) for the texts [+-]digits, [+-]digits.digits and [+-]inf:
\* the integer part for a number (int() truncates toward zero), ValueError
\* for a text that is no float, OverflowError for an infinity.
IntOfFloat(s) ==
    LET t    == Strip(s)
        neg  == t # <<>> /\ t[1] = "-"
        body == IF t # <<>> /\ t[1] \in {"+", "-"} THEN Tail(t) ELSE t
        dots == {k \in 1..Len(body) : body[k] = "."}
        ip   == IF dots = {} THEN body
                ELSE SubSeq(body, 1, (CHOOSE k \in dots : TRUE) - 1)
        fp   == IF dots = {} THEN <<>>
                ELSE SubSeq(body, (CHOOSE k \in dots : TRUE) + 1, Len(body))
        num  == /\ Cardinality(dots) <= 1
                /\ ip \o fp # <<>>
                /\ AllDigits(ip, 1, Len(ip))
                /\ AllDigits(fp, 1, Len(fp))
    IN  IF Lower(body) = sInf THEN [raises |-> "OverflowError", val |-> 0]
        ELSE IF ~num THEN [raises |-> "ValueError", val |-> 0]
        ELSE [raises |-> "", val |-> IF neg THEN 0 - DecVal(ip) ELSE DecVal(ip)]

\* try: int(float(text.strip() or '0'))  except ValueError: 0
parse_qty(text) ==
    LET t == Strip(text)
        r == IntOfFloat(IF t = <<>> THEN <<"0">> ELSE t)
    IN  IF r.raises = "ValueError" THEN [raises |-> "", val |-> 0] ELSE r

RECURSIVE Pow10(_)
Pow10(n) == IF n = 0 THEN 1 ELSE 10 * Pow10(n - 1)

\* A float, as the fraction num / den it stands for; inf tells an infinity
\* (of the sign of num).  The decimals of the inputs are chosen to be exact
\* in binary, so the fraction is the float.
FloatZero == [inf |-> FALSE, num |-> 0, den |-> 1]

\* float(s) of a trimmed text [+-]digits, [+-]digits.digits or [+-]inf;
\* 0.0 where float raises ValueError.
FloatOfText(t, body) ==
    LET sign == IF t[1] = "-" THEN 0 - 1 ELSE 1
        dots == {k \in 1..Len(body) : body[k] = "."}
        dot  == IF dots = {} THEN Len(body) + 1 ELSE CHOOSE k \in dots : TRUE
        digs == SubSeq(body, 1, dot - 1) \o SubSeq(body, dot + 1, Len(body))
    IN  IF Lower(body) = sInf
        THEN [inf |-> TRUE, num |-> sign, den |-> 1]
        ELSE IF Cardinality(dots) <= 1 /\ digs # <<>>
                    /\ AllDigits(digs, 1, Len(digs))
        THEN [inf |-> FALSE, num |-> sign * DecVal(digs),
              den |-> Pow10(Len(body) - Len(digs))]
        ELSE FloatZero

\* try: float(text.strip() or '0')  except ValueError: 0.0
parse_float(text) ==
    IF Strip(text) = <<>> THEN FloatZero
    ELSE FloatOfText(Strip(text),
                     IF Strip(text)[1] \in {"+", "-"} THEN Tail(Strip(text))
                     ELSE Strip(text))

\* markup that doubles the cost.
markup_doubled(cost) ==
    IF cost.inf THEN cost ELSE [cost EXCEPT !.num = 2 * @]

\* cost * 1.5
markup(cost) ==
    IF cost.inf THEN cost ELSE [cost EXCEPT !.num = 3 * @, !.den = 2 * @]

\* The value '' of a column the catalog file does not have.
EmptyCell == [text |-> <<>>]

----------------------------------------------------------------------------
(* load_duoplane_mapping *)

sNV01 == <<"N", "V", "0", "1">>

\* duoplane_row where a key already in the map keeps its first value.
duoplane_row_keep_first(map, row) ==
    IF /\ Strip(row.vendor_name) = sNV01
       /\ Strip(row.vendor_sku) # <<>>
       /\ Strip(row.retailer_sku) # <<>>
       /\ Strip(row.vendor_sku) \notin DOMAIN map
    THEN DictSet(map, Strip(row.vendor_sku), Strip(row.retailer_sku))
    ELSE map

\* One iteration of the loop over the DuoPlane rows.
duoplane_row(map, row) ==
    LET vendor_name == Strip(row.vendor_name)
        vendor_sku  == Strip(row.vendor_sku)
        retail_sku  == Strip(row.retailer_sku)
    IN  IF vendor_name = sNV01 /\ vendor_sku # <<>> /\ retail_sku # <<>>
        THEN DictSet(map, vendor_sku, retail_sku)
        ELSE map

LoadDuoplaneRow ==
    /\ pc = "load_duoplane"
    /\ i <= Len(dp_file)
    /\ vendor_to_retail_map' = duoplane_row(vendor_to_retail_map, dp_file[i])
    /\ i' = i + 1
    /\ UNCHANGED <<pc, dp_file, inv_file, cat_file, inventory_rows,
                   upc_to_sku_map, duplicate_upcs, inventory_sku_map,
                   duplicate_count, duplicate_skus, parent_products,
                   simple_products, processed_inventory_skus, products_by_key,
                   standalone_products, grouped_products, all_rows_to_write,
                   product_name, unit_per_pack_str, pack_size>>

\* load_duoplane_mapping returns; load_inventory_data opens the inventory.
ReturnDuoplaneMapping ==
    /\ pc = "load_duoplane"
    /\ i > Len(dp_file)
    /\ pc' = "read_inventory"
    /\ i' = 1
    /\ UNCHANGED <<dp_file, inv_file, cat_file, vendor_to_retail_map,
                   inventory_rows, upc_to_sku_map, duplicate_upcs,
                   inventory_sku_map, duplicate_count, duplicate_skus,
                   parent_products, simple_products, processed_inventory_skus,
                   products_by_key, standalone_products, grouped_products,
                   all_rows_to_write, product_name, unit_per_pack_str,
                   pack_size>>

----------------------------------------------------------------------------
(* load_inventory_data, first pass *)

\* The row stored in inventory_rows for a csv row with a non-empty SKU.
inventory_row(map, row, row_index) ==
    LET vendor_sku == Strip(row.SKU)
        mapped     == IF vendor_sku \in DOMAIN map THEN map[vendor_sku]
                      ELSE <<>>
    IN  [vendor_sku   |-> vendor_sku,
         retail_sku   |-> IF mapped = <<>> THEN vendor_sku ELSE mapped,
         cost         |-> parse_float(row.Cost),
         price        |-> parse_float(row.Price),
         total_qty    |-> parse_qty(row.Quantity).val,
         location_qty |-> parse_qty(row.Qty_1).val,
         weight       |-> parse_float(row.Weight),
         location     |-> Strip(row.Location_1),
         upc          |-> Strip(row.UPC),
         row_index    |-> row_index]

ReadInventoryRow ==
    /\ pc = "read_inventory"
    /\ i <= Len(inv_file)
    /\ LET row        == inv_file[i]
           vendor_sku == Strip(row.SKU)
           upc        == Strip(row.UPC)
       IN  IF vendor_sku = <<>>
           THEN /\ i' = i + 1
                /\ UNCHANGED <<pc, inventory_rows, upc_to_sku_map,
                               duplicate_upcs>>
           ELSE IF \/ parse_qty(row.Quantity).raises # ""
                   \/ parse_qty(row.Qty_1).raises # ""
           THEN /\ pc' = "crashed"
                /\ UNCHANGED <<i, inventory_rows, upc_to_sku_map,
                               duplicate_upcs>>
           ELSE /\ i' = i + 1
                /\ pc' = pc
                /\ duplicate_upcs' =
                       IF upc # <<>> /\ upc \in DOMAIN upc_to_sku_map
                       THEN duplicate_upcs \cup {upc}
                       ELSE duplicate_upcs
                /\ upc_to_sku_map' =
                       IF upc # <<>> /\ upc \notin DOMAIN upc_to_sku_map
                       THEN DictSet(upc_to_sku_map, upc, vendor_sku)
                       ELSE upc_to_sku_map
                /\ inventory_rows' =
                       Append(inventory_rows,
                              inventory_row(vendor_to_retail_map, row, i - 1))
    /\ UNCHANGED <<dp_file, inv_file, cat_file, vendor_to_retail_map,
                   inventory_sku_map, duplicate_count, duplicate_skus,
                   parent_products, simple_products, processed_inventory_skus,
                   products_by_key, standalone_products, grouped_products,
                   all_rows_to_write, product_name, unit_per_pack_str,
                   pack_size>>

\* The inventory file is exhausted: the second pass begins.
StartSecondPass ==
    /\ pc = "read_inventory"
    /\ i > Len(inv_file)
    /\ pc' = "second_pass"
    /\ i' = 1
    /\ UNCHANGED <<dp_file, inv_file, cat_file, vendor_to_retail_map,
                   inventory_rows, upc_to_sku_map, duplicate_upcs,
                   inventory_sku_map, duplicate_count, duplicate_skus,
                   parent_products, simple_products, processed_inventory_skus,
                   products_by_key, standalone_products, grouped_products,
                   all_rows_to_write, product_name, unit_per_pack_str,
                   pack_size>>

----------------------------------------------------------------------------
(* load_inventory_data, second pass *)

\* conflict_count with the test on row_index left out: every conflicting
\* row of the file is counted, not only the earlier ones.
conflict_count_all_rows(rows, first, row) ==
    1 + Cardinality({k \in 1..Len(rows) :
            /\ ~(rows[k].upc = row.upc /\ rows[k].vendor_sku = first[row.upc])
            /\ rows[k].upc = row.upc
            /\ rows[k].vendor_sku # row.vendor_sku})

\* The number appended to a duplicate UPC of a row that is not the first
\* product seen with it.
conflict_count(rows, first, row) ==
    1 + Cardinality({k \in 1..Len(rows) :
            /\ ~(rows[k].upc = row.upc /\ rows[k].vendor_sku = first[row.upc])
            /\ rows[k].upc = row.upc
            /\ rows[k].vendor_sku # row.vendor_sku
            /\ rows[k].row_index < row.row_index})

\* The upc a row's product_details carry.
deduplicated_upc(rows, first, dups, row) ==
    IF row.upc \in dups /\ first[row.upc] # row.vendor_sku
    THEN row.upc \o DecStr(conflict_count(rows, first, row))
    ELSE row.upc

\* Index of the entry of an ordered dict (a list of records) with this key,
\* 0 when there is none.
IndexOf(d, key) ==
    IF \E k \in 1..Len(d) : d[k].vendor_sku = key
    THEN CHOOSE k \in 1..Len(d) : d[k].vendor_sku = key
    ELSE 0

Keys(d) == {d[k].vendor_sku : k \in 1..Len(d)}

\* locations[loc] = qty on an ordered dict held as a list of pairs.
SetLocation(locs, loc, qty) ==
    IF \E k \in 1..Len(locs) : locs[k][1] = loc
    THEN [k \in 1..Len(locs) |->
             IF locs[k][1] = loc THEN <<loc, qty>> ELSE locs[k]]
    ELSE Append(locs, <<loc, qty>>)

\* row_qty without the clamp of a negative quantity.
row_qty_unclamped(row) == row.total_qty

\* The quantity a source row adds to its product's total.
row_qty(row) == Max(row.total_qty, 0)

\* inventory_sku_map after one iteration of the second pass.
second_pass_row(map, rows, first, dups, row) ==
    LET k == IndexOf(map, row.vendor_sku)
    IN  IF k # 0
        THEN [map EXCEPT
                 ![k].locations =
                     IF row.location # <<>>
                     THEN SetLocation(@, row.location,
                                      Max(row.location_qty, 0))
                     ELSE @,
                 ![k].qty = @ + row_qty(row)]
        ELSE Append(map,
                 [vendor_sku |-> row.vendor_sku,
                  cost       |-> row.cost,
                  price      |-> row.price,
                  qty        |-> row_qty(row),
                  weight     |-> row.weight,
                  upc        |-> deduplicated_upc(rows, first, dups, row),
                  retail_sku |-> row.retail_sku,
                  locations  |-> IF row.location # <<>>
                                 THEN <<<<row.location,
                                          Max(row.location_qty, 0)>>>>
                                 ELSE <<>>,
                  row_index  |-> row.row_index])

ProcessInventoryRow ==
    /\ pc = "second_pass"
    /\ i <= Len(inventory_rows)
    /\ LET row == inventory_rows[i]
           dup == row.vendor_sku \in Keys(inventory_sku_map)
       IN  /\ inventory_sku_map' =
                  second_pass_row(inventory_sku_map, inventory_rows,
                                  upc_to_sku_map, duplicate_upcs, row)
           /\ duplicate_count' = IF dup THEN duplicate_count + 1
                                 ELSE duplicate_count
           /\ duplicate_skus' = IF dup
                                THEN Append(duplicate_skus, row.vendor_sku)
                                ELSE duplicate_skus
    /\ i' = i + 1
    /\ UNCHANGED <<pc, dp_file, inv_file, cat_file, vendor_to_retail_map,
                   inventory_rows, upc_to_sku_map, duplicate_upcs,
                   parent_products, simple_products, processed_inventory_skus,
                   products_by_key, standalone_products, grouped_products,
                   all_rows_to_write, product_name, unit_per_pack_str,
                   pack_size>>

\* load_inventory_data returns to clean_and_aggregate_magento_csv.
ReturnInventoryData ==
    /\ pc = "second_pass"
    /\ i > Len(inventory_rows)
    /\ pc' = "read_catalog"
    /\ i' = 1
    /\ UNCHANGED <<dp_file, inv_file, cat_file, vendor_to_retail_map,
                   inventory_rows, upc_to_sku_map, duplicate_upcs,
                   inventory_sku_map, duplicate_count, duplicate_skus,
                   parent_products, simple_products, processed_inventory_skus,
                   products_by_key, standalone_products, grouped_products,
                   all_rows_to_write, product_name, unit_per_pack_str,
                   pack_size>>

----------------------------------------------------------------------------
(* clean_and_aggregate_magento_csv: reading the catalog *)

sSimple == <<"s", "i", "m", "p", "l", "e">>

RECURSIVE JoinLocations(_)
\* ';'.join(f"{loc}:{qty}" for loc, qty in locations.items())
JoinLocations(locs) ==
    IF locs = <<>> THEN <<>>
    ELSE LET last == locs[Len(locs)]
             head == SubSeq(locs, 1, Len(locs) - 1)
         IN  (IF head = <<>> THEN <<>> ELSE JoinLocations(head) \o <<";">>)
                 \o last[1] \o <<":">> \o IntStr(last[2])

\* vendor_sku_match with the search by retail_sku tried before the key.
vendor_sku_match_retail_first(map, sku) ==
    IF \E k \in 1..Len(map) : map[k].retail_sku = sku
    THEN CHOOSE k \in 1..Len(map) :
             /\ map[k].retail_sku = sku
             /\ \A m \in 1..(k - 1) : map[m].retail_sku # sku
    ELSE IndexOf(map, sku)

\* The index in inventory_sku_map of the record a catalog sku resolves to:
\* the record with that key, else the first record with that retail_sku,
\* else 0.
vendor_sku_match(map, sku) ==
    IF sku \in Keys(map) THEN IndexOf(map, sku)
    ELSE LET hits == {k \in 1..Len(map) :
                         map[k].retail_sku # <<>> /\ map[k].retail_sku = sku}
         IN  IF hits = {} THEN 0
             ELSE CHOOSE k \in hits : \A m \in hits : k <= m

\* The row dict after the identity resolution of lines 313-344.  line is the
\* row's position in the file; the code does not store it, the model keeps
\* it to tell the rows apart.  Columns the csv does not have (upc,
\* retail_sku and the derived ones) read as '' until they are set.
catalog_row(map, row, line) ==
    LET sku == Strip(row.sku)
        k   == vendor_sku_match(map, sku)
        base == [line               |-> line,
                 sku                |-> row.sku,
                 product_type       |-> row.product_type,
                 parent_sku         |-> row.parent_sku,
                 name               |-> row.name,
                 unit_per_pack      |-> row.unit_per_pack,
                 attribute_set_code |-> row.attribute_set_code,
                 brand              |-> row.brand,
                 flavor             |-> row.flavor,
                 volume             |-> row.volume,
                 nicotine_level     |-> row.nicotine_level,
                 resistance         |-> row.resistance,
                 puff_counts        |-> row.puff_counts,
                 cost               |-> EmptyCell,
                 price              |-> EmptyCell,
                 weight             |-> EmptyCell,
                 qty                |-> 0,
                 upc                |-> <<>>,
                 retail_sku         |-> <<>>,
                 locations          |-> <<>>,
                 pack_size          |-> None,
                 canonical_name     |-> <<>>,
                 single_product_sku |-> <<>>,
                 original_qty       |-> 0]
    IN  IF k # 0
        THEN [base EXCEPT !.cost = map[k].cost,
                          !.qty = map[k].qty,
                          !.upc = map[k].upc,
                          !.weight = map[k].weight,
                          !.retail_sku = sku,
                          !.sku = map[k].vendor_sku,
                          !.locations = JoinLocations(map[k].locations)]
        ELSE base

ReadCatalogRow ==
    /\ pc = "read_catalog"
    /\ i <= Len(cat_file)
    /\ LET sku          == Strip(cat_file[i].sku)
           product_type == Lower(Strip(cat_file[i].product_type))
           row          == catalog_row(inventory_sku_map, cat_file[i], i)
       IN  IF product_type = sSimple
           THEN /\ simple_products' = Append(simple_products, row)
                /\ UNCHANGED parent_products
           ELSE /\ parent_products' = DictSet(parent_products, sku, row)
                /\ UNCHANGED simple_products
    /\ i' = i + 1
    /\ UNCHANGED <<pc, dp_file, inv_file, cat_file, vendor_to_retail_map,
                   inventory_rows, upc_to_sku_map, duplicate_upcs,
                   inventory_sku_map, duplicate_count, duplicate_skus,
                   processed_inventory_skus, products_by_key,
                   standalone_products, grouped_products, all_rows_to_write,
                   product_name, unit_per_pack_str, pack_size>>

\* The catalog is exhausted: the loop over simple_products begins.
StartSimpleProducts ==
    /\ pc = "read_catalog"
    /\ i > Len(cat_file)
    /\ pc' = "simple_products"
    /\ i' = 1
    /\ UNCHANGED <<dp_file, inv_file, cat_file, vendor_to_retail_map,
                   inventory_rows, upc_to_sku_map, duplicate_upcs,
                   inventory_sku_map, duplicate_count, duplicate_skus,
                   parent_products, simple_products, processed_inventory_skus,
                   products_by_key, standalone_products, grouped_products,
                   all_rows_to_write, product_name, unit_per_pack_str,
                   pack_size>>

----------------------------------------------------------------------------
(* clean_and_aggregate_magento_csv: the loop over simple_products *)

\* inherited with "0" and "0.0" counted as missing too (what the comment of
\* lines 367-368 describes).
inherited_zero_is_missing(own, has_parent, parent_val) ==
    IF Strip(own) \in {<<>>, <<"0">>, <<"0", ".", "0">>} /\ has_parent
           /\ Strip(parent_val) # <<>>
    THEN Strip(parent_val)
    ELSE own

\* One field of fields_to_check: the parent's trimmed value when the row's
\* own is empty after trimming and the parent has one.
inherited(own, has_parent, parent_val) ==
    IF Strip(own) = <<>> /\ has_parent /\ Strip(parent_val) # <<>>
    THEN Strip(parent_val)
    ELSE own

\* The loop over fields_to_check, given whether the parent exists.
inherit_fields(row, has, parent) ==
        [row EXCEPT
            !.attribute_set_code = inherited(@, has, parent.attribute_set_code),
            !.flavor             = inherited(@, has, parent.flavor),
            !.volume             = inherited(@, has, parent.volume),
            !.nicotine_level     = inherited(@, has, parent.nicotine_level),
            !.unit_per_pack      = inherited(@, has, parent.unit_per_pack),
            !.puff_counts        = inherited(@, has, parent.puff_counts),
            !.resistance         = inherited(@, has, parent.resistance)]

\* parent_products.get(parent_sku) of a row: the row itself stands for None.
parent_of(row, parent_sku, parents) ==
    IF parent_sku \in DOMAIN parents THEN parents[parent_sku] ELSE row

\* The row after the loop over fields_to_check.
inherit_from_parent(row, parents) ==
    inherit_fields(row, Strip(row.parent_sku) \in DOMAIN parents,
                   parent_of(row, Strip(row.parent_sku), parents))

\* meaningful without the test for '0' and '0.0'.
meaningful_if_not_empty(attr) == Lower(Strip(attr)) # <<>>

\* attr.strip().lower() is non-empty and neither '0' nor '0.0'.
meaningful(attr) ==
    Lower(Strip(attr)) \notin {<<>>, <<"0">>, <<"0", ".", "0">>}

should_generate_canonical_name(volume, nicotine_level, flavor, resistance) ==
    \E attr \in {volume, nicotine_level, flavor, resistance} : meaningful(attr)

RECURSIVE JoinAttrs(_)
\* " | ".join(attrs)
JoinAttrs(attrs) ==
    IF Len(attrs) = 0 THEN <<>>
    ELSE IF Len(attrs) = 1 THEN attrs[1]
    ELSE JoinAttrs(SubSeq(attrs, 1, Len(attrs) - 1))
             \o <<" ", "|", " ">> \o attrs[Len(attrs)]

\* generate_canonical_name that keeps the place of every attribute: an
\* attribute that is not meaningful is written as ''.
generate_canonical_name_positional(base_name, category, brand, volume, nicotine_level, flavor, resistance) ==
    (IF Lower(Strip(category)) # <<>> /\ Lower(Strip(brand)) # <<>>
     THEN Lower(Strip(category)) \o <<"_">> \o Lower(Strip(brand)) \o <<"_">>
     ELSE <<>>)
        \o Lower(Strip(base_name)) \o <<" ", "|", " ">>
        \o JoinAttrs([k \in 1..4 |->
               IF meaningful(<<volume, nicotine_level, flavor, resistance>>[k])
               THEN Lower(Strip(<<volume, nicotine_level, flavor,
                                  resistance>>[k]))
               ELSE <<>>])

generate_canonical_name(base_name, category, brand, volume, nicotine_level, flavor, resistance) ==
    LET base  == Lower(Strip(base_name))
        cat   == Lower(Strip(category))
        br    == Lower(Strip(brand))
        canon == IF cat # <<>> /\ br # <<>>
                 THEN cat \o <<"_">> \o br \o <<"_">> \o base
                 ELSE base
        all   == <<volume, nicotine_level, flavor, resistance>>
        attrs == SelectSeq([k \in 1..4 |-> Lower(Strip(all[k]))],
                           LAMBDA a : a \notin {<<>>, <<"0">>, <<"0", ".", "0">>})
    IN  IF attrs # <<>> THEN canon \o <<" ", "|", " ">> \o JoinAttrs(attrs)
        ELSE canon

\* Lines 381-409 on a row that has inherited: pack_size, trimmed flavor and
\* resistance, the puff count as an integer, original_qty.
cast_row(r) ==
    [r EXCEPT
        !.pack_size    = extract_pack_size(r.name, r.unit_per_pack),
        !.flavor       = Strip(@),
        !.resistance   = Strip(@),
        !.puff_counts  = IntStr(IntOfFloat(@).val),
        !.original_qty = r.qty]

\* The row as lines 363-409 leave it.
processed_row(row, parents) == cast_row(inherit_from_parent(row, parents))

\* The canonical name lines 415-418 give a processed row.
canonical_name_of(r) ==
    IF should_generate_canonical_name(r.volume, r.nicotine_level, r.flavor,
                                      r.resistance)
    THEN generate_canonical_name(Strip(r.parent_sku),
                                 Strip(r.attribute_set_code), r.brand,
                                 r.volume, r.nicotine_level, r.flavor,
                                 r.resistance)
    ELSE <<>>

\* products_by_key.setdefault(key, []).append(row)
AddToGroup(groups, key, row) ==
    IF \E g \in 1..Len(groups) : groups[g].key = key
    THEN [g \in 1..Len(groups) |->
             IF groups[g].key = key
             THEN [groups[g] EXCEPT !.rows = Append(@, row)]
             ELSE groups[g]]
    ELSE Append(groups, [key |-> key, rows |-> <<row>>])

\* row['canonical_name'] = canonical_name (line 418).
with_canonical_name(r) == [r EXCEPT !.canonical_name = canonical_name_of(r)]

\* Lines 420-434: the processed row goes to its group or to the standalone
\* products, and its sku is marked when it is an inventory key.
StoreSimpleProduct(row, is_inventory_item) ==
    /\ simple_products' = [simple_products EXCEPT ![i] = row]
    /\ products_by_key' =
           IF row.canonical_name # <<>>
           THEN AddToGroup(products_by_key, row.canonical_name, row)
           ELSE products_by_key
    /\ standalone_products' =
           IF row.canonical_name = <<>> /\ is_inventory_item
           THEN Append(standalone_products, row)
           ELSE standalone_products
    /\ processed_inventory_skus' =
           IF is_inventory_item
           THEN processed_inventory_skus \cup {row.sku}
           ELSE processed_inventory_skus

\* int(float(puff_counts)) of line 397 overflows on the inherited row.
puff_counts_overflow(row, parents) ==
    IntOfFloat(inherit_from_parent(row, parents).puff_counts).raises
        = "OverflowError"

ProcessSimpleProduct ==
    /\ pc = "simple_products"
    /\ i <= Len(simple_products)
    /\ IF puff_counts_overflow(simple_products[i], parent_products)
       THEN /\ pc' = "crashed"
            /\ UNCHANGED <<i, simple_products, products_by_key,
                           standalone_products, processed_inventory_skus>>
       ELSE /\ pc' = pc
            /\ i' = i + 1
            /\ StoreSimpleProduct(
                   with_canonical_name(
                       processed_row(simple_products[i], parent_products)),
                   processed_row(simple_products[i], parent_products).sku
                       \in Keys(inventory_sku_map))
    /\ UNCHANGED <<dp_file, inv_file, cat_file, vendor_to_retail_map,
                   inventory_rows, upc_to_sku_map, duplicate_upcs,
                   inventory_sku_map, duplicate_count, duplicate_skus,
                   parent_products, grouped_products, all_rows_to_write,
                   product_name, unit_per_pack_str, pack_size>>

\* simple_products is exhausted: the loop over products_by_key begins.
StartGroups ==
    /\ pc = "simple_products"
    /\ i > Len(simple_products)
    /\ pc' = "groups"
    /\ i' = 1
    /\ UNCHANGED <<dp_file, inv_file, cat_file, vendor_to_retail_map,
                   inventory_rows, upc_to_sku_map, duplicate_upcs,
                   inventory_sku_map, duplicate_count, duplicate_skus,
                   parent_products, simple_products, processed_inventory_skus,
                   products_by_key, standalone_products, grouped_products,
                   all_rows_to_write, product_name, unit_per_pack_str,
                   pack_size>>

----------------------------------------------------------------------------
(* clean_and_aggregate_magento_csv: groups, unprocessed inventory, output *)

\* single_product_sku_of without the preference for the inventory: the first
\* row of pack_size 1, else ''.
single_product_sku_of_first_single(rows, keys) ==
    IF \E k \in 1..Len(rows) : rows[k].pack_size = 1
    THEN rows[CHOOSE k \in 1..Len(rows) :
                  /\ rows[k].pack_size = 1
                  /\ \A m \in 1..(k - 1) : rows[m].pack_size # 1].sku
    ELSE <<>>

\* The sku of the single pack of a group: the first row of pack_size 1 whose
\* sku is in the inventory, else the first row of pack_size 1, else ''.
single_product_sku_of(rows, keys) ==
    LET inv == {k \in 1..Len(rows) :
                   rows[k].pack_size = 1 /\ rows[k].sku \in keys}
        any == {k \in 1..Len(rows) : rows[k].pack_size = 1}
        found == IF inv # {}
                 THEN rows[CHOOSE k \in inv : \A m \in inv : k <= m].sku
                 ELSE <<>>
    IN  IF found # <<>> THEN found
        ELSE IF any # {}
        THEN rows[CHOOSE k \in any : \A m \in any : k <= m].sku
        ELSE <<>>

\* group_rows without the test on pack_size: every row refers to the single.
group_rows_every_row(rows, single) ==
    [k \in 1..Len(rows) |-> [rows[k] EXCEPT !.single_product_sku = single]]

\* The rows of a group with single_product_sku set (lines 454-459).
group_rows(rows, single) ==
    [k \in 1..Len(rows) |->
        [rows[k] EXCEPT !.single_product_sku =
            IF rows[k].pack_size > 1 /\ single # <<>> THEN single ELSE <<>>]]

\* keep_group_row that keeps every multi-pack, whatever it refers to.
keep_group_row_any_multipack(row, single, keys) ==
    \/ row.sku \in keys
    \/ row.pack_size > 1

\* Whether a row of a group is appended to grouped_products (lines 461-466).
keep_group_row(row, single, keys) ==
    \/ row.sku \in keys
    \/ row.pack_size > 1 /\ single # <<>> /\ single \in keys

ProcessGroup ==
    /\ pc = "groups"
    /\ i <= Len(products_by_key)
    /\ LET keys   == Keys(inventory_sku_map)
           single == single_product_sku_of(products_by_key[i].rows, keys)
           rows   == group_rows(products_by_key[i].rows, single)
       IN  /\ products_by_key' = [products_by_key EXCEPT ![i].rows = rows]
           /\ grouped_products' =
                  grouped_products \o
                      SelectSeq(rows, LAMBDA r : keep_group_row(r, single, keys))
    /\ i' = i + 1
    /\ UNCHANGED <<pc, dp_file, inv_file, cat_file, vendor_to_retail_map,
                   inventory_rows, upc_to_sku_map, duplicate_upcs,
                   inventory_sku_map, duplicate_count, duplicate_skus,
                   parent_products, simple_products, processed_inventory_skus,
                   standalone_products, all_rows_to_write, product_name,
                   unit_per_pack_str, pack_size>>

\* products_by_key is exhausted: the loop over inventory_sku_map begins.
StartUnprocessed ==
    /\ pc = "groups"
    /\ i > Len(products_by_key)
    /\ pc' = "unprocessed"
    /\ i' = 1
    /\ UNCHANGED <<dp_file, inv_file, cat_file, vendor_to_retail_map,
                   inventory_rows, upc_to_sku_map, duplicate_upcs,
                   inventory_sku_map, duplicate_count, duplicate_skus,
                   parent_products, simple_products, processed_inventory_skus,
                   products_by_key, standalone_products, grouped_products,
                   all_rows_to_write, product_name, unit_per_pack_str,
                   pack_size>>

sInventoryItem ==
    <<"I","n","v","e","n","t","o","r","y"," ","I","t","e","m"," ">>

\* The basic row made for an inventory item no simple product processed.
inventory_item_row(data) ==
    [line               |-> 0,
     sku                |-> data.vendor_sku,
     product_type       |-> <<>>,
     parent_sku         |-> <<>>,
     name               |-> sInventoryItem \o data.vendor_sku,
     unit_per_pack      |-> <<>>,
     attribute_set_code |-> <<>>,
     brand              |-> <<>>,
     flavor             |-> <<>>,
     volume             |-> <<>>,
     nicotine_level     |-> <<>>,
     resistance         |-> <<>>,
     puff_counts        |-> <<>>,
     cost               |-> data.cost,
     price              |-> markup(data.cost),
     weight             |-> data.weight,
     qty                |-> data.qty,
     upc                |-> data.upc,
     retail_sku         |-> data.retail_sku,
     locations          |-> JoinLocations(data.locations),
     pack_size          |-> 1,
     canonical_name     |-> <<>>,
     single_product_sku |-> <<>>,
     original_qty       |-> data.qty]

AddUnprocessedInventory ==
    /\ pc = "unprocessed"
    /\ i <= Len(inventory_sku_map)
    /\ standalone_products' =
           IF inventory_sku_map[i].vendor_sku \notin processed_inventory_skus
           THEN Append(standalone_products,
                       inventory_item_row(inventory_sku_map[i]))
           ELSE standalone_products
    /\ i' = i + 1
    /\ UNCHANGED <<pc, dp_file, inv_file, cat_file, vendor_to_retail_map,
                   inventory_rows, upc_to_sku_map, duplicate_upcs,
                   inventory_sku_map, duplicate_count, duplicate_skus,
                   parent_products, simple_products, processed_inventory_skus,
                   products_by_key, grouped_products, all_rows_to_write,
                   product_name, unit_per_pack_str, pack_size>>

\* all_rows_to_write = grouped_products + standalone_products, written out.
WriteOutput ==
    /\ pc = "unprocessed"
    /\ i > Len(inventory_sku_map)
    /\ all_rows_to_write' = grouped_products \o standalone_products
    /\ pc' = "done"
    /\ UNCHANGED <<i, dp_file, inv_file, cat_file, vendor_to_retail_map,
                   inventory_rows, upc_to_sku_map, duplicate_upcs,
                   inventory_sku_map, duplicate_count, duplicate_skus,
                   parent_products, simple_products, processed_inventory_skus,
                   products_by_key, standalone_products, grouped_products,
                   product_name, unit_per_pack_str, pack_size>>

----------------------------------------------------------------------------
(* A lone call of extract_pack_size *)

ExtractPackSize ==
    /\ pc = "extract_pack_size"
    /\ pack_size' = extract_pack_size(product_name, unit_per_pack_str)
    /\ pc' = "returned"
    /\ UNCHANGED <<i, dp_file, inv_file, cat_file, vendor_to_retail_map,
                   inventory_rows, upc_to_sku_map, duplicate_upcs,
                   inventory_sku_map, duplicate_count, duplicate_skus,
                   parent_products, simple_products, processed_inventory_skus,
                   products_by_key, standalone_products, grouped_products,
                   all_rows_to_write, product_name, unit_per_pack_str>>

----------------------------------------------------------------------------
(* Inputs *)

MaxUpcRows == 3

MaxQtyRows == 2

SeqsUpTo(S, n) == UNION {[1..k -> S] : k \in 0..n}

sA == <<"A">>

sB == <<"B">>

sC == <<"C">>

sR == <<"R">>

DuoRow(vendor_name, vendor_sku, retailer_sku) ==
    [vendor_name  |-> vendor_name,
     vendor_sku   |-> vendor_sku,
     retailer_sku |-> retailer_sku]

InvRow(sku, quantity, qty_1, location_1, upc) ==
    [SKU        |-> sku,
     Cost       |-> <<>>,
     Price      |-> <<>>,
     Quantity   |-> quantity,
     Qty_1      |-> qty_1,
     Weight     |-> <<>>,
     Location_1 |-> location_1,
     UPC        |-> upc]

\* The row with its Cost, Price and Weight columns filled in.
WithCosts(row, costs) ==
    [row EXCEPT !.Cost = costs[1], !.Price = costs[2], !.Weight = costs[3]]

\* A DuoPlane file that maps vendor sku A to retail sku R.
DuoFileAR == <<DuoRow(sNV01 \o <<" ">>, sA, sR)>>

\* Inventory rows that differ in SKU and UPC.
UpcRows ==
    {InvRow(sku, <<"1">>, <<"1">>, <<>>, upc) :
        sku \in {sA, sB, sC, <<>>}, upc \in {<<"1">>, <<"1", "1">>, <<" ">>}}

\* Inventory rows that differ in SKU, quantities and location, and with
\* them in Cost, Price and Weight.
QtyRows ==
    {WithCosts(InvRow(sku, quantity, lq[1], lq[2], <<>>), lq[3]) :
        sku \in {sA, sB},
        quantity \in {<<"2">>, <<"-", "1">>, <<"1", ".", "7">>, <<"x">>},
        lq \in {<<<<"1">>, <<"G">>, <<<<"2", ".", "5">>, <<"4">>, <<".", "5">>>>>>,
                <<<<"3">>, <<"H">>, <<<<"x">>, <<>>, <<"-", "1">>>>>>,
                <<<<"-", "3">>, <<"G">>, <<<<" ", "3">>, <<"4", ".">>, <<"1">>>>>>,
                <<<<"1">>, <<>>, <<<<"7">>, <<"8">>, <<"9">>>>>>}}
      \cup {InvRow(<<>>, <<"2">>, <<"1">>, <<"G">>, <<>>),
            InvRow(sA, sInf, <<"1">>, <<"G">>, <<>>)}

\* The state in which load_duoplane_mapping starts on the given files.
Start(dp, inv, cat) ==
    /\ pc = "load_duoplane"
    /\ i = 1
    /\ dp_file = dp
    /\ inv_file = inv
    /\ cat_file = cat
    /\ vendor_to_retail_map = EmptyDict
    /\ inventory_rows = <<>>
    /\ upc_to_sku_map = EmptyDict
    /\ duplicate_upcs = {}
    /\ inventory_sku_map = <<>>
    /\ duplicate_count = 0
    /\ duplicate_skus = <<>>
    /\ parent_products = EmptyDict
    /\ simple_products = <<>>
    /\ processed_inventory_skus = {}
    /\ products_by_key = <<>>
    /\ standalone_products = <<>>
    /\ grouped_products = <<>>
    /\ all_rows_to_write = <<>>
    /\ product_name = <<>>
    /\ unit_per_pack_str = <<>>
    /\ pack_size = None

NextInventory ==
    \/ LoadDuoplaneRow
    \/ ReturnDuoplaneMapping
    \/ ReadInventoryRow
    \/ StartSecondPass
    \/ ProcessInventoryRow
    \/ ReturnInventoryData

InitUpc == \E inv \in SeqsUpTo(UpcRows, MaxUpcRows) : Start(DuoFileAR, inv, <<>>)

SpecUpc == InitUpc /\ [][NextInventory]_vars

InitQty == \E inv \in SeqsUpTo(QtyRows, MaxQtyRows) : Start(DuoFileAR, inv, <<>>)

SpecQty == InitQty /\ [][NextInventory]_vars

----------------------------------------------------------------------------
(* Inputs of the whole pipeline *)

MaxPipeInvRows == 2

MaxCatRows == 3

MaxAttrRows == 3

sD == <<"D">>

sP == <<"P">>

sQ == <<"Q">>

sW == <<"W">>

sW4Pack == <<"W", " ", "4", "-", "P", "a", "c", "k">>

sMint == <<"m", "i", "n", "t">>

sIce == <<"I", "c", "e">>

sKit == <<"K", "i", "t">>

sConfigurable == <<"c","o","n","f","i","g","u","r","a","b","l","e">>

CatRow(sku, product_type, parent_sku, name, unit_per_pack, attribute_set_code, brand, flavor, volume, nicotine_level, resistance, puff_counts) ==
    [sku                |-> sku,
     product_type       |-> product_type,
     parent_sku         |-> parent_sku,
     name               |-> name,
     unit_per_pack      |-> unit_per_pack,
     attribute_set_code |-> attribute_set_code,
     brand              |-> brand,
     flavor             |-> flavor,
     volume             |-> volume,
     nicotine_level     |-> nicotine_level,
     resistance         |-> resistance,
     puff_counts        |-> puff_counts]

\* The catalog's skus are unique.
UniqueSkus(cat) ==
    \A k, m \in 1..Len(cat) : k # m => Strip(cat[k].sku) # Strip(cat[m].sku)

\* Inventory rows: 10 of A at location G, 3 of B.
PipeInvRows ==
    {WithCosts(InvRow(sA, <<"1", "0">>, <<"1", "0">>, <<"G">>, <<>>),
               <<<<"2", ".", "5">>, <<"4">>, <<".", "2", "5">>>>),
     WithCosts(InvRow(sB, <<"3">>, <<"3">>, <<>>, <<>>),
               <<<<" ", "3">>, <<>>, <<"x">>>>)}

\* Catalog rows: singles and 4-packs of one product (parent P, flavor mint)
\* under the skus A, B and R, rows without attributes under the skus A and
\* D, and the parent.
PipeCatRows ==
    {CatRow(sku, sSimple, sP, name, <<>>, sKit, <<"V">>, sMint, <<>>, <<>>,
            <<>>, <<>>) : sku \in {sA, sB, sR}, name \in {sW, sW4Pack}}
      \cup {CatRow(sA, sSimple, <<>>, sW, <<>>, sKit, <<"V">>, <<>>, <<"0">>,
                   <<>>, <<>>, <<>>),
            CatRow(sD, sSimple, <<>>, sW, <<>>, sKit, <<"V">>, <<>>, <<>>,
                   <<>>, <<>>, <<>>),
            CatRow(sP, sConfigurable, <<>>, sW, <<>>, sKit, <<"V">>, <<>>,
                   <<>>, <<>>, <<>>, <<>>)}

\* Catalog rows that differ in the attributes: a child A of parent P, a child
\* D whose parent_sku names the simple row A, the parent P (itself a child
\* of Q) and the grandparent Q.
AttrCatRows ==
    {CatRow(sA, sSimple, sP, sW, <<>>, <<>>, <<"V">>, flavor, volume,
            <<"0">>, resistance, <<>>) :
        flavor \in {<<>>, <<" ">>, sIce},
        volume \in {<<>>, <<" ", "0", ".", "0", " ">>, <<"3", "0">>},
        resistance \in {<<>>, <<"0", ".", "0", "0">>}}
      \cup
    {CatRow(sD, <<" ">> \o <<"S">> \o Tail(sSimple), sA, sW, sSingle,
            <<"P", "o", "d">>, <<"V">>, flavor, <<"0">>, <<>>, <<>>,
            <<"5">>) : flavor \in {<<>>, <<"O", "w", "n">>}}
      \cup
    {CatRow(sP, sConfigurable, sQ, sW, <<"2">>, sKit, <<"V">>, flavor, volume,
            <<>>, <<>>, <<" ", "9">>) :
        flavor \in {<<>>, <<" ">> \o sMint \o <<" ">>},
        volume \in {<<>>, <<"0">>}}
      \cup
    {CatRow(sQ, sConfigurable, <<>>, sW, <<"6">>, sKit, <<"V">>,
            <<"D", "e", "e", "p">>, <<"9">>, <<"9">>, <<"9">>, <<"9">>)}

NextPipeline ==
    \/ NextInventory
    \/ ReadCatalogRow
    \/ StartSimpleProducts
    \/ ProcessSimpleProduct
    \/ StartGroups
    \/ ProcessGroup
    \/ StartUnprocessed
    \/ AddUnprocessedInventory
    \/ WriteOutput

Init ==
    \E dp \in {<<>>, DuoFileAR},
       inv \in SeqsUpTo(PipeInvRows, MaxPipeInvRows),
       cat \in SeqsUpTo(PipeCatRows, MaxCatRows) :
        UniqueSkus(cat) /\ Start(dp, inv, cat)

Spec == Init /\ [][NextPipeline]_vars

InitAttr ==
    \E cat \in SeqsUpTo(AttrCatRows, MaxAttrRows) :
        /\ UniqueSkus(cat)
        /\ Start(DuoFileAR, <<InvRow(sA, <<"5">>, <<"5">>, <<"G">>, <<>>)>>,
                 cat)

SpecAttr == InitAttr /\ [][NextPipeline]_vars

----------------------------------------------------------------------------
(* Properties of load_inventory_data *)

\* The rows of the inventory file that the first pass keeps, in file order.
KeptRows == {k \in 1..Len(inv_file) : Strip(inv_file[k].SKU) # <<>>}

RowSku(k) == Strip(inv_file[k].SKU)

RowUpc(k) == Strip(inv_file[k].UPC)

\* The first row of the file with this vendor sku.
FirstRowOf(v) ==
    CHOOSE k \in KeptRows :
        RowSku(k) = v /\ \A m \in KeptRows : RowSku(m) = v => k <= m

\* The vendor sku of the first row of the file that carries upc u.
FirstSkuOf(u) ==
    RowSku(CHOOSE k \in KeptRows :
               RowUpc(k) = u /\ \A m \in KeptRows : RowUpc(m) = u => k <= m)

InventoryLoaded == pc = "read_catalog"

\* C3 as stated: the N-th distinct vendor sku (in input order) whose rows
\* carry one UPC gets the UPC followed by the decimal N, the first keeps it.
C3_NthDistinctSkuGetsSuffixN ==
    InventoryLoaded =>
        \A k \in 1..Len(inventory_sku_map) :
            LET rec == inventory_sku_map[k]
                r   == FirstRowOf(rec.vendor_sku)
                u   == RowUpc(r)
                n   == 1 + Cardinality({RowSku(m) : m \in
                           {m \in KeptRows : m < r /\ RowUpc(m) = u}})
            IN  u # <<>> =>
                    rec.upc = IF n = 1 THEN u ELSE u \o DecStr(n)

\* C3 (amended): the vendor sku first seen with a UPC keeps it; another
\* vendor sku whose first row carries that UPC gets the UPC followed by the
\* decimal of 1 + the number of earlier rows that carry the UPC and belong
\* to another vendor sku than the first-seen one.
C3_SuffixIsOnePlusEarlierConflicts ==
    InventoryLoaded =>
        \A k \in 1..Len(inventory_sku_map) :
            LET rec == inventory_sku_map[k]
                r   == FirstRowOf(rec.vendor_sku)
                u   == RowUpc(r)
                n   == 1 + Cardinality({m \in KeptRows :
                           /\ m < r
                           /\ RowUpc(m) = u
                           /\ RowSku(m) # FirstSkuOf(u)})
            IN  rec.upc = IF u = <<>> \/ FirstSkuOf(u) = rec.vendor_sku
                          THEN u
                          ELSE u \o DecStr(n)

\* Three vendor skus whose first rows carry one UPC have been loaded, the
\* first with the UPC unchanged and the other two with suffixes 1 and 2.
C3_Witness ==
    /\ InventoryLoaded
    /\ Len(inventory_sku_map) = 3
    /\ \A k \in 1..3 : RowUpc(FirstRowOf(inventory_sku_map[k].vendor_sku))
                           = <<"1">>
    /\ inventory_sku_map[1].upc = <<"1">>
    /\ inventory_sku_map[2].upc = <<"1", "1">>
    /\ inventory_sku_map[3].upc = <<"1", "2">>

\* C4: no two InventoryRecords carry the same non-empty upc.
C4_UpcUnique ==
    InventoryLoaded =>
        \A k, m \in 1..Len(inventory_sku_map) :
            (k # m /\ inventory_sku_map[k].upc # <<>>)
                => inventory_sku_map[k].upc # inventory_sku_map[m].upc

RECURSIVE SumRows(_, _)
\* The sum of f[k] over the rows k <= n of the inventory file.
SumRows(f, n) == IF n = 0 THEN 0 ELSE SumRows(f, n - 1) + f[n]

\* What row k of the file contributes to the total of vendor sku v.
QuantityOf(v) ==
    [k \in 1..Len(inv_file) |->
        IF RowSku(k) = v THEN Max(parse_qty(inv_file[k].Quantity).val, 0)
        ELSE 0]

\* What row k of the file contributes to the locations of vendor sku v.
LocationQuantityOf(v) ==
    [k \in 1..Len(inv_file) |->
        IF RowSku(k) = v /\ Strip(inv_file[k].Location_1) # <<>>
        THEN Max(parse_qty(inv_file[k].Qty_1).val, 0)
        ELSE 0]

\* C10 as stated: a record's qty is the sum of the location quantities its
\* source rows contribute.
C10_QtyIsSumOfLocationQuantities ==
    InventoryLoaded =>
        \A k \in 1..Len(inventory_sku_map) :
            inventory_sku_map[k].qty =
                SumRows(LocationQuantityOf(inventory_sku_map[k].vendor_sku),
                        Len(inv_file))

\* C10 (amended): a record's qty is the sum, over the source rows of its
\* vendor sku, of the row's total Quantity with a negative one counted as 0.
C10_QtyIsSumOfRowQuantities ==
    InventoryLoaded =>
        \A k \in 1..Len(inventory_sku_map) :
            inventory_sku_map[k].qty =
                SumRows(QuantityOf(inventory_sku_map[k].vendor_sku),
                        Len(inv_file))

\* A vendor sku with two source rows of positive Quantity has been loaded.
C10_Witness ==
    /\ InventoryLoaded
    /\ \E k \in 1..Len(inventory_sku_map) :
           /\ inventory_sku_map[k].qty = 4
           /\ Cardinality({m \in KeptRows :
                  RowSku(m) = inventory_sku_map[k].vendor_sku}) = 2

----------------------------------------------------------------------------
(* Properties of clean_and_aggregate_magento_csv *)

Done == pc = "done"

\* The group at position g of products_by_key has been through the loop of
\* lines 438-466.
GroupProcessed(g) ==
    \/ pc \in {"unprocessed", "done"}
    \/ pc = "groups" /\ g < i

\* The simple product at position j has been through the loop of lines
\* 362-434.
SimpleProcessed(j) ==
    \/ pc \in {"groups", "unprocessed", "done"}
    \/ pc = "simple_products" /\ j < i

RECURSIVE SumSingles(_, _)
\* The single units of the first n rows of a group: qty times pack_size.
SumSingles(rows, n) ==
    IF n = 0 THEN 0
    ELSE SumSingles(rows, n - 1) + rows[n].original_qty * rows[n].pack_size

\* C1: in the output, the representative row of every group (one whose
\* members have distinct skus and whose representative is in the
\* inventory, so that it is written) carries the
\* group's total number of single units (the sum of qty times pack_size
\* over the members) as qty, and every other row of the group carries qty 0.
C1_QuantityConservation ==
    Done =>
        \A g \in 1..Len(products_by_key) :
            LET rows == products_by_key[g].rows
                rep  == single_product_sku_of(rows, Keys(inventory_sku_map))
            IN  (/\ rep \in Keys(inventory_sku_map)
                 /\ \A k, m \in 1..Len(rows) :
                        k # m => rows[k].sku # rows[m].sku) =>
                    \A k \in 1..Len(all_rows_to_write) :
                        LET r == all_rows_to_write[k]
                        IN  r.canonical_name = products_by_key[g].key =>
                                r.qty = IF r.sku = rep /\ r.pack_size = 1
                                        THEN SumSingles(rows, Len(rows))
                                        ELSE 0

\* C2: every key of inventory_sku_map is the sku of exactly one output row.
C2_EveryInventoryKeyExactlyOnce ==
    Done =>
        \A n \in 1..Len(inventory_sku_map) :
            Cardinality({k \in 1..Len(all_rows_to_write) :
                all_rows_to_write[k].sku = inventory_sku_map[n].vendor_sku})
                = 1

\* C5 as stated: every processed group has exactly one member of pack_size
\* 1, and every other member is a multi-pack whose single_product_sku is
\* that member's sku.
C5_ExactlyOneSinglePerGroup ==
    \A g \in 1..Len(products_by_key) :
        GroupProcessed(g) =>
            LET rows == products_by_key[g].rows
            IN  \E k \in 1..Len(rows) :
                    /\ rows[k].pack_size = 1
                    /\ \A m \in 1..Len(rows) :
                           m # k => /\ rows[m].pack_size > 1
                                    /\ rows[m].single_product_sku = rows[k].sku

\* C5 (amended): a processed group has at most one representative.  When
\* some member has pack_size 1, one such member is the representative: every
\* member of pack_size > 1 carries its sku as single_product_sku and every
\* other member (the other singles included) carries ''.  When no member
\* has pack_size 1, every member carries ''.
C5_AtMostOneRepresentativePerGroup ==
    \A g \in 1..Len(products_by_key) :
        GroupProcessed(g) =>
            LET rows    == products_by_key[g].rows
                singles == {k \in 1..Len(rows) : rows[k].pack_size = 1}
            IN  IF singles = {}
                THEN \A m \in 1..Len(rows) : rows[m].single_product_sku = <<>>
                ELSE \E k \in singles :
                         \A m \in 1..Len(rows) :
                             rows[m].single_product_sku =
                                 IF rows[m].pack_size > 1 THEN rows[k].sku
                                 ELSE <<>>

\* A processed group holds two singles and a multi-pack that refers to one
\* of them.
C5_Witness ==
    \E g \in 1..Len(products_by_key) :
        /\ GroupProcessed(g)
        /\ LET rows == products_by_key[g].rows
           IN  /\ Cardinality({k \in 1..Len(rows) : rows[k].pack_size = 1}) = 2
               /\ \E m \in 1..Len(rows) :
                      /\ rows[m].pack_size > 1
                      /\ rows[m].single_product_sku # <<>>

\* An attribute that is empty, "0" or "0.0" once trimmed and lowercased.
Blank(v) == Lower(Strip(v)) \in {<<>>, <<"0">>, <<"0", ".", "0">>}

AllBlank(r) ==
    Blank(r.volume) /\ Blank(r.nicotine_level) /\ Blank(r.flavor)
        /\ Blank(r.resistance)

Lines(rows) == {rows[k].line : k \in 1..Len(rows)}

GroupedLines == UNION {Lines(products_by_key[g].rows) :
                          g \in 1..Len(products_by_key)}

\* C6: a processed simple record whose four attributes are all blank has
\* canonical_name '' and single_product_sku '', is in no group and not
\* among the grouped products, and is a standalone product (and, at the
\* end, an output row) exactly when its sku is an inventory key; every
\* other processed simple record is in a group, so that every member of a
\* group has a meaningful attribute.
C6_BlankRecordsAreNeverGrouped ==
    /\ \A j \in 1..Len(simple_products) :
           SimpleProcessed(j) =>
               LET r == simple_products[j]
               IN  IF AllBlank(r)
                   THEN /\ r.canonical_name = <<>>
                        /\ r.single_product_sku = <<>>
                        /\ r.line \notin GroupedLines
                        /\ r.line \notin Lines(grouped_products)
                        /\ r.line \in Lines(standalone_products)
                               <=> r.sku \in Keys(inventory_sku_map)
                        /\ Done => (r.line \in Lines(all_rows_to_write)
                                       <=> r.sku \in Keys(inventory_sku_map))
                   ELSE /\ r.line \in GroupedLines
                        /\ r.line \notin Lines(standalone_products)
    /\ \A g \in 1..Len(products_by_key) :
           \A k \in 1..Len(products_by_key[g].rows) :
               ~AllBlank(products_by_key[g].rows[k])

\* The run has ended with a blank record of the inventory written as a
\* standalone row, after its volume " 0.0 " was found not meaningful.
C6_Witness ==
    /\ Done
    /\ \E j \in 1..Len(simple_products) :
           LET r == simple_products[j]
           IN  /\ AllBlank(r)
               /\ r.volume = <<" ", "0", ".", "0", " ">>
               /\ r.line \in Lines(all_rows_to_write)
               /\ r.line \notin GroupedLines

InheritedFields ==
    {"attribute_set_code", "flavor", "volume", "nicotine_level",
     "unit_per_pack", "puff_counts", "resistance"}

\* What lines 386-402 make of a field after the inheritance.
Cast(f, v) ==
    IF f \in {"flavor", "resistance"} THEN Strip(v)
    ELSE IF f = "puff_counts" THEN IntStr(IntOfFloat(v).val)
    ELSE v

\* The rows of the catalog that are not simple and have this sku.
ParentLines(sku) ==
    {k \in 1..Len(cat_file) :
        /\ Lower(Strip(cat_file[k].product_type)) # sSimple
        /\ Strip(cat_file[k].sku) = sku}

----------------------------------------------------------------------------
(* extract_pack_size on its own *)

sWidget == <<"W", "i", "d", "g", "e", "t">>

sPack == <<"P", "a", "c", "k">>

\* Product names: an optional prefix, an optional number, an optional
\* separator and an optional word.
PackNames ==
    {pre \o num \o sep \o word :
        pre \in {<<>>, sWidget, sWidget \o <<" ">>, <<"1", "2", " ">>},
        num \in {<<>>, <<"5">>, <<"1", "0">>},
        sep \in {<<>>, <<"-">>, <<" ">>, <<"_">>},
        word \in {<<>>, sPack, Lower(sPack), <<"P", "A", "C", "K">>,
                  <<"p", "a", "c">>}}

PackUnits ==
    {<<>>, sSingle, <<" ", "S">> \o Tail(sSingle) \o <<" ">>,
     <<"O", "N", "E">>, sSingleDisposable, sSingle \o <<"s">>, <<"3">>,
     <<"a", "1", "2", "b", "3">>, <<"x">>}

InitPack ==
    \E name \in PackNames, unit \in PackUnits :
        /\ pc = "extract_pack_size"
        /\ product_name = name
        /\ unit_per_pack_str = unit
        /\ pack_size = None
        /\ i = 1
        /\ dp_file = <<>>
        /\ inv_file = <<>>
        /\ cat_file = <<>>
        /\ vendor_to_retail_map = EmptyDict
        /\ inventory_rows = <<>>
        /\ upc_to_sku_map = EmptyDict
        /\ duplicate_upcs = {}
        /\ inventory_sku_map = <<>>
        /\ duplicate_count = 0
        /\ duplicate_skus = <<>>
        /\ parent_products = EmptyDict
        /\ simple_products = <<>>
        /\ processed_inventory_skus = {}
        /\ products_by_key = <<>>
        /\ standalone_products = <<>>
        /\ grouped_products = <<>>
        /\ all_rows_to_write = <<>>

NextPack == ExtractPackSize

SpecPack == InitPack /\ [][NextPack]_vars

\* The digits s[b..e] are followed, after at most one "-" or " ", by the
\* word "pack": spelled "pack" or "Pack" when exact, in any case otherwise.
PackNumberAt(s, b, e, exact) ==
    /\ b <= e
    /\ \A k \in b..e : s[k] \in Digits
    /\ \E p \in {e + 1, e + 2} :
           /\ p + 3 <= Len(s)
           /\ p = e + 2 => s[e + 1] \in {"-", " "}
           /\ IF exact
              THEN SubSeq(s, p, p + 3) \in {sPack, Lower(sPack)}
              ELSE Lower(SubSeq(s, p, p + 3)) = Lower(sPack)

\* The priority rule of the contract: 1 for a single-unit phrase, else the
\* first number before the word "pack" in the name, else the first number
\* in unit, else 1.
PackSizeByPriority(name, unit, exact) ==
    LET nums == {m \in (1..Len(name)) \X (1..Len(name)) :
                    PackNumberAt(name, m[1], m[2], exact)}
        best == CHOOSE m \in nums :
                    \A o \in nums : m[1] < o[1] \/ (m[1] = o[1] /\ m[2] >= o[2])
        ds   == {k \in 1..Len(unit) : unit[k] \in Digits}
        d1   == CHOOSE k \in ds : \A m \in ds : k <= m
        runs == {k \in d1..Len(unit) : \A m \in d1..k : unit[m] \in Digits}
        d2   == CHOOSE k \in runs : \A m \in runs : m <= k
    IN  IF Lower(Strip(unit)) \in {sSingleDisposable, sSingle, sOne} THEN 1
        ELSE IF nums # {} THEN DecVal(SubSeq(name, best[1], best[2]))
        ELSE IF ds # {} THEN DecVal(SubSeq(unit, d1, d2))
        ELSE 1

\* C8 as stated: the priority rule with the word "pack" matched in any
\* case.
C8_PriorityCaseInsensitive ==
    pc = "returned" =>
        pack_size = PackSizeByPriority(product_name, unit_per_pack_str, FALSE)

\* C8 (amended): the priority rule, a single-unit phrase being recognised
\* after trimming and lowercasing unit_per_pack, and the word in the name
\* being "pack" or "Pack" exactly (only its first letter may be a capital).
C8_PriorityPackOrCapitalPack ==
    pc = "returned" =>
        pack_size = PackSizeByPriority(product_name, unit_per_pack_str, TRUE)

\* extract_pack_size("Widget 5-Pack", "") has returned 5.
C8_Witness ==
    /\ pc = "returned"
    /\ product_name = sWidget \o <<" ", "5", "-">> \o sPack
    /\ unit_per_pack_str = <<>>
    /\ pack_size = 5


----------------------------------------------------------------------------
(* load_duoplane_mapping on its own *)

MaxDuoRows == 2

sNV02 == <<"N", "V", "0", "2">>

\* DuoPlane rows: vendor NV01 (also padded) and another vendor, the vendor
\* skus A (also padded), B and none, the retail skus R, Q (padded) and none.
DuoRows ==
    {DuoRow(vendor_name, vendor_sku, retailer_sku) :
        vendor_name  \in {sNV01, <<" ">> \o sNV01 \o <<" ">>, sNV02},
        vendor_sku   \in {sA, <<" ">> \o sA, sB, <<" ">>},
        retailer_sku \in {sR, sQ \o <<" ">>, <<>>}}

NextDuo ==
    \/ LoadDuoplaneRow
    \/ ReturnDuoplaneMapping

InitDuo == \E dp \in SeqsUpTo(DuoRows, MaxDuoRows) : Start(dp, <<>>, <<>>)

SpecDuo == InitDuo /\ [][NextDuo]_vars

\* The rows of the DuoPlane file the loop has gone through.
DuoRowsRead ==
    IF pc = "load_duoplane" THEN 1..(i - 1) ELSE 1..Len(dp_file)

\* Row j is of vendor NV01, has the vendor sku k and a retail sku.
DuoRowMaps(j, k) ==
    /\ Strip(dp_file[j].vendor_name) = sNV01
    /\ Strip(dp_file[j].vendor_sku) = k
    /\ k # <<>>
    /\ Strip(dp_file[j].retailer_sku) # <<>>

\* The texts a key of the map could be.
DuoKeys ==
    DOMAIN vendor_to_retail_map
        \cup {Strip(dp_file[j].vendor_sku) : j \in 1..Len(dp_file)}
        \cup {dp_file[j].vendor_sku : j \in 1..Len(dp_file)}

\* C11: after any number of DuoPlane rows the map has the key k exactly when
\* some row read so far is of vendor "NV01" after trimming, has the trimmed
\* vendor_sku k (not empty) and a non-empty trimmed retailer_sku; the value
\* of k is the trimmed retailer_sku of the last such row; rows of another
\* vendor or with an empty sku field leave the map alone, and the load never
\* ends in an error.
C11_MapIsLastNV01RowPerKey ==
    /\ pc # "crashed"
    /\ \A k \in DuoKeys :
           LET rows == {j \in DuoRowsRead : DuoRowMaps(j, k)}
           IN  /\ k \in DOMAIN vendor_to_retail_map <=> rows # {}
               /\ rows # {} =>
                      LET last == CHOOSE j \in rows : \A m \in rows : m <= j
                      IN  vendor_to_retail_map[k]
                              = Strip(dp_file[last].retailer_sku)

\* C11: the mapping has returned after a later NV01 row overwrote the value
\* an earlier one gave the key A.
C11_Witness ==
    /\ pc = "read_inventory"
    /\ \E j, m \in 1..Len(dp_file) :
           /\ j < m
           /\ DuoRowMaps(j, sA)
           /\ DuoRowMaps(m, sA)
           /\ Strip(dp_file[j].retailer_sku) # Strip(dp_file[m].retailer_sku)
           /\ vendor_to_retail_map[sA] = Strip(dp_file[m].retailer_sku)


----------------------------------------------------------------------------
(* Representative of a canonical group *)

\* Position k of the rows holds a single pack; with inv, one whose sku is a
\* key of the inventory.
IsSingle(rows, k, inv) ==
    /\ rows[k].pack_size = 1
    /\ inv => rows[k].sku \in Keys(inventory_sku_map)

\* Position k is the first of the rows that holds such a single pack.
FirstSingle(rows, k, inv) ==
    /\ IsSingle(rows, k, inv)
    /\ \A m \in 1..(k - 1) : ~IsSingle(rows, m, inv)

\* Every row of the group refers to the text rep when it is a multi-pack,
\* and to nothing otherwise.
RefersTo(rows, rep) ==
    \A m \in 1..Len(rows) :
        rows[m].single_product_sku =
            IF rows[m].pack_size > 1 THEN rep ELSE <<>>

\* C12: in every processed group the representative is the first member of
\* pack_size 1 whose sku is an inventory key; when there is no such member
\* it is the first member of pack_size 1; otherwise there is none.  Every
\* member of pack_size > 1 has the representative's sku as
\* single_product_sku ('' when there is none), every member of pack_size
\* <= 1 has ''.
C12_RepresentativeSelection ==
    \A g \in 1..Len(products_by_key) :
        GroupProcessed(g) =>
            LET rows == products_by_key[g].rows
                N    == 1..Len(rows)
            IN  /\ \A k \in N :
                       FirstSingle(rows, k, TRUE) => RefersTo(rows, rows[k].sku)
                /\ \A k \in N :
                       /\ FirstSingle(rows, k, FALSE)
                       /\ \A m \in N : ~IsSingle(rows, m, TRUE)
                       => RefersTo(rows, rows[k].sku)
                /\ (\A m \in N : ~IsSingle(rows, m, FALSE))
                       => RefersTo(rows, <<>>)

\* C12: a processed group whose first single pack is not in the inventory,
\* with a later single pack that is, and a multi-pack that refers to the
\* later one.
C12_Witness ==
    \E g \in 1..Len(products_by_key) :
        /\ GroupProcessed(g)
        /\ LET rows == products_by_key[g].rows
           IN  \E k, m, n \in 1..Len(rows) :
                   /\ k < m
                   /\ FirstSingle(rows, k, FALSE)
                   /\ FirstSingle(rows, m, TRUE)
                   /\ rows[n].pack_size > 1
                   /\ rows[n].single_product_sku = rows[m].sku
                   /\ rows[m].sku # rows[k].sku


----------------------------------------------------------------------------
(* Membership of the output *)

\* The catalog row at this line of the file is a simple product.
IsSimpleLine(n) == Lower(Strip(cat_file[n].product_type)) = sSimple

\* (a) a simple catalog row whose sku is an inventory key.
OutputInventoryRow(r) ==
    /\ r.line \in 1..Len(cat_file)
    /\ IsSimpleLine(r.line)
    /\ r.sku \in Keys(inventory_sku_map)

\* (b) a grouped simple catalog row of pack_size > 1 whose single_product_sku
\* is an inventory key.
OutputMultiPackRow(r) ==
    /\ r.line \in 1..Len(cat_file)
    /\ IsSimpleLine(r.line)
    /\ r.canonical_name # <<>>
    /\ r.pack_size > 1
    /\ r.single_product_sku \in Keys(inventory_sku_map)

\* (c) a row made from an inventory record no simple catalog row processed.
OutputOrphanRow(r) ==
    /\ r.line = 0
    /\ r.sku \notin processed_inventory_skus
    /\ \E n \in 1..Len(inventory_sku_map) :
           /\ inventory_sku_map[n].vendor_sku = r.sku
           /\ r.qty = inventory_sku_map[n].qty
           /\ r.name = sInventoryItem \o r.sku

\* C13: every row of the output is a simple catalog row whose sku is an
\* inventory key, or a grouped simple catalog row of pack_size > 1 whose
\* single_product_sku is an inventory key, or a row made from an unprocessed
\* inventory record; no row of the output comes from a catalog row that is
\* not simple, nor from a simple one that matches no inventory record and is
\* no such multi-pack.
C13_OutputMembership ==
    Done =>
        /\ \A k \in 1..Len(all_rows_to_write) :
               LET r == all_rows_to_write[k]
               IN  \/ OutputInventoryRow(r)
                   \/ OutputMultiPackRow(r)
                   \/ OutputOrphanRow(r)
        /\ \A n \in 1..Len(cat_file) :
               \A k \in 1..Len(all_rows_to_write) :
                   all_rows_to_write[k].line = n =>
                       /\ IsSimpleLine(n)
                       /\ \/ vendor_sku_match(inventory_sku_map,
                                               Strip(cat_file[n].sku)) # 0
                          \/ OutputMultiPackRow(all_rows_to_write[k])

\* C13: the output holds a row of each of the three kinds, one of the
\* second kind being itself no inventory key, and a simple catalog row
\* that matches no inventory record was left out.
C13_Witness ==
    /\ Done
    /\ \E a, b, c \in 1..Len(all_rows_to_write) :
           /\ OutputInventoryRow(all_rows_to_write[a])
           /\ OutputMultiPackRow(all_rows_to_write[b])
           /\ all_rows_to_write[b].sku \notin Keys(inventory_sku_map)
           /\ OutputOrphanRow(all_rows_to_write[c])
    /\ \E n \in 1..Len(cat_file) :
           /\ IsSimpleLine(n)
           /\ \A k \in 1..Len(all_rows_to_write) :
                  all_rows_to_write[k].line # n


----------------------------------------------------------------------------
(* Identity resolution of the catalog rows *)

MaxMatchRows == 2

\* DuoPlane files: A sold as B, and A and B both sold as R.
DuoFileAB == <<DuoRow(sNV01, sA, sB)>>

DuoFileARBR == <<DuoRow(sNV01, sA, sR), DuoRow(sNV01, sB, sR)>>

\* Catalog rows without attributes under the skus A, B (padded) and D
\* (padded), a row of flavor mint under the sku R, and a parent.
MatchCatRows ==
    {CatRow(sku, sSimple, <<>>, sW, <<>>, sKit, <<"V">>, <<>>, <<>>, <<>>,
            <<>>, <<>>) :
        sku \in {sA, <<" ">> \o sB \o <<" ">>, <<" ">> \o sD}}
      \cup {CatRow(sR, sSimple, <<>>, sW, <<>>, sKit, <<"V">>, sMint, <<>>,
                   <<>>, <<>>, <<>>),
            CatRow(sP, sConfigurable, <<>>, sW, <<>>, sKit, <<"V">>, <<>>,
                   <<>>, <<>>, <<>>, <<>>)}

InitMatch ==
    \E dp \in {<<>>, DuoFileAR, DuoFileAB, DuoFileARBR},
       inv \in SeqsUpTo(PipeInvRows, MaxPipeInvRows),
       cat \in SeqsUpTo(MatchCatRows, MaxMatchRows) : Start(dp, inv, cat)

SpecMatch == InitMatch /\ [][NextPipeline]_vars

\* The catalog rows read so far, as the program holds them.
CatalogRowsRead ==
    {simple_products[k] : k \in 1..Len(simple_products)}
        \cup {parent_products[k] : k \in DOMAIN parent_products}

\* The records whose key is the text sku, and those whose retail_sku is.
DirectMatches(sku) ==
    {k \in 1..Len(inventory_sku_map) : inventory_sku_map[k].vendor_sku = sku}

RetailMatches(sku) ==
    {k \in 1..Len(inventory_sku_map) : inventory_sku_map[k].retail_sku = sku}

\* The row r carries the identity and the stock of the inventory record m,
\* and the catalog sku it was looked up by as retail_sku.
ResolvedTo(r, m, sku) ==
    /\ r.sku = inventory_sku_map[m].vendor_sku
    /\ r.retail_sku = sku
    /\ r.cost = inventory_sku_map[m].cost
    /\ r.qty = inventory_sku_map[m].qty
    /\ r.upc = inventory_sku_map[m].upc
    /\ r.weight = inventory_sku_map[m].weight
    /\ r.locations = JoinLocations(inventory_sku_map[m].locations)

\* C14: a catalog row whose trimmed sku is an inventory key resolves to
\* that record, even when another record has it as retail_sku; otherwise it
\* resolves to the first record, in insertion order, whose retail_sku is the
\* sku.  A resolved row has the record's vendor_sku as sku, the catalog sku
\* it was looked up by as retail_sku, and the record's cost, qty, upc, weight
\* and locations.  A row that matches no record keeps its sku, has qty 0 and
\* no locations.
C14_IdentityResolution ==
    \A r \in CatalogRowsRead :
        LET sku    == Strip(cat_file[r.line].sku)
            direct == DirectMatches(sku)
            retail == RetailMatches(sku)
        IN  /\ \A m \in direct : ResolvedTo(r, m, sku)
            /\ direct = {} =>
                   \A m \in retail :
                       (\A n \in retail : m <= n) => ResolvedTo(r, m, sku)
            /\ direct = {} /\ retail = {} =>
                   /\ r.sku = cat_file[r.line].sku
                   /\ r.qty = 0
                   /\ r.locations = <<>>

\* C14: the catalog has been read, with a row that resolved to the record
\* of its key although an earlier record has its sku as retail_sku, and a
\* row that matched no record and kept its sku.
C14_Witness ==
    /\ pc = "simple_products"
    /\ \E r \in CatalogRowsRead :
           LET sku == Strip(cat_file[r.line].sku)
           IN  /\ \E m \in RetailMatches(sku) :
                      \E n \in DirectMatches(sku) : m < n /\ ResolvedTo(r, n, sku)
               /\ r.cost # EmptyCell
    /\ \E r \in CatalogRowsRead :
           /\ r.qty = 0
           /\ r.sku # Strip(r.sku)
           /\ r.cost = EmptyCell


----------------------------------------------------------------------------
(* Duplicate inventory rows *)

\* The rows of the file with the vendor sku v, and those of them that name
\* the location loc.
RowsOf(v) == {k \in KeptRows : RowSku(k) = v}

RowsAt(v, loc) == {k \in RowsOf(v) : Strip(inv_file[k].Location_1) = loc}

\* The record rec of vendor sku v has the cost, price, weight and retail_sku
\* of the first row of v, and that row's UPC (followed by a suffix when the
\* UPC is a duplicate).
FromFirstRow(rec, v) ==
    LET row == inv_file[FirstRowOf(v)]
    IN  /\ rec.cost = parse_float(row.Cost)
        /\ rec.price = parse_float(row.Price)
        /\ rec.weight = parse_float(row.Weight)
        /\ rec.retail_sku = IF v \in DOMAIN vendor_to_retail_map
                            THEN vendor_to_retail_map[v] ELSE v
        /\ SubSeq(rec.upc, 1, Len(Strip(row.UPC))) = Strip(row.UPC)
        /\ Strip(row.UPC) \notin duplicate_upcs => rec.upc = Strip(row.UPC)

\* The locations of the record rec of vendor sku v are those its rows name,
\* each with the Qty_1 of the last row that names it, a negative or
\* unparseable one counted as 0.
LocationsFromLastRow(rec, v) ==
    /\ {rec.locations[n][1] : n \in 1..Len(rec.locations)}
           = {Strip(inv_file[k].Location_1) : k \in RowsOf(v)} \ {<<>>}
    /\ \A n \in 1..Len(rec.locations) :
           /\ rec.locations[n][2] >= 0
           /\ \E k \in RowsAt(v, rec.locations[n][1]) :
                  /\ \A m \in RowsAt(v, rec.locations[n][1]) : m <= k
                  /\ rec.locations[n][2]
                         = Max(parse_qty(inv_file[k].Qty_1).val, 0)
           /\ \A m \in 1..Len(rec.locations) :
                  rec.locations[m][1] = rec.locations[n][1] => m = n

\* What C15 says of the records once the inventory is loaded.
RecordsAccumulateRows ==
    /\ Keys(inventory_sku_map) = {RowSku(k) : k \in KeptRows}
    /\ <<>> \notin Keys(inventory_sku_map)
    /\ \A n, m \in 1..Len(inventory_sku_map) :
           inventory_sku_map[n].vendor_sku = inventory_sku_map[m].vendor_sku
               => n = m
    /\ \A n \in 1..Len(inventory_sku_map) :
           LET rec == inventory_sku_map[n]
           IN  /\ FromFirstRow(rec, rec.vendor_sku)
               /\ rec.qty = SumRows(QuantityOf(rec.vendor_sku), Len(inv_file))
               /\ rec.qty >= 0
               /\ LocationsFromLastRow(rec, rec.vendor_sku)
    /\ Len(inventory_sku_map) + duplicate_count = Cardinality(KeptRows)

\* C15: every sequence of inventory rows is loaded, and then each non-empty
\* vendor_sku has exactly one record, whose cost, price, weight, upc and
\* retail_sku come from its first row, whose qty is the sum over its rows of
\* max(Quantity, 0) with an unparseable Quantity counted as 0, whose
\* locations hold max(Qty_1, 0) of the last row naming each location, qty
\* and location quantities never negative; rows with an empty SKU add to no
\* record; len(inventory_sku_map) + duplicate_count is the number of rows
\* with a non-empty SKU.
C15_DuplicateRowsAccumulate ==
    /\ pc # "crashed"
    /\ InventoryLoaded => RecordsAccumulateRows


----------------------------------------------------------------------------
(* Inventory records no catalog row processed *)

\* The rows of the output made from the inventory record of this key.
SynthesizedRows(key) ==
    {k \in 1..Len(all_rows_to_write) :
        all_rows_to_write[k].line = 0 /\ all_rows_to_write[k].sku = key}

\* The float price is one and a half times the float cost.
OneAndAHalfTimes(price, cost) ==
    /\ price.inf = cost.inf
    /\ 2 * price.num * cost.den = 3 * cost.num * price.den

\* C16: in the output, every inventory record whose key no simple catalog
\* row added to processed_inventory_skus has exactly one synthesized row,
\* with its sku, pack_size 1, empty canonical_name and single_product_sku,
\* qty and original_qty equal to the record's qty and price equal to 1.5
\* times its cost; a processed key has no synthesized row; and every
\* inventory key is the sku of at least one output row.
C16_OrphanMaterialization ==
    Done =>
        \A n \in 1..Len(inventory_sku_map) :
            LET rec == inventory_sku_map[n]
                syn == SynthesizedRows(rec.vendor_sku)
            IN  /\ rec.vendor_sku \in processed_inventory_skus => syn = {}
                /\ rec.vendor_sku \notin processed_inventory_skus =>
                       /\ Cardinality(syn) = 1
                       /\ \A k \in syn :
                              LET r == all_rows_to_write[k]
                              IN  /\ r.pack_size = 1
                                  /\ r.canonical_name = <<>>
                                  /\ r.single_product_sku = <<>>
                                  /\ r.qty = rec.qty
                                  /\ r.original_qty = rec.qty
                                  /\ OneAndAHalfTimes(r.price, rec.cost)
                /\ \E k \in 1..Len(all_rows_to_write) :
                       all_rows_to_write[k].sku = rec.vendor_sku

\* C16: the output holds the synthesized row of a record of cost 2.5, at the
\* price 3.75, beside the catalog row of a processed key.
C16_Witness ==
    /\ Done
    /\ processed_inventory_skus # {}
    /\ \E n \in 1..Len(inventory_sku_map) :
           /\ inventory_sku_map[n].vendor_sku \notin processed_inventory_skus
           /\ inventory_sku_map[n].cost = [inf |-> FALSE, num |-> 25, den |-> 10]
           /\ \E k \in SynthesizedRows(inventory_sku_map[n].vendor_sku) :
                  375 * all_rows_to_write[k].price.den
                      = 100 * all_rows_to_write[k].price.num


----------------------------------------------------------------------------
(* References of the multi-packs in the output *)

\* C17: in the output, every row with a non-empty single_product_sku has
\* pack_size > 1, its single_product_sku is not its own sku, and it is the
\* sku of another row of the output that has pack_size 1.
C17_BomReferentialIntegrity ==
    Done =>
        \A k \in 1..Len(all_rows_to_write) :
            LET r == all_rows_to_write[k]
            IN  r.single_product_sku # <<>> =>
                    /\ r.pack_size > 1
                    /\ r.single_product_sku # r.sku
                    /\ \E m \in 1..Len(all_rows_to_write) :
                           /\ m # k
                           /\ all_rows_to_write[m].sku = r.single_product_sku
                           /\ all_rows_to_write[m].pack_size = 1


----------------------------------------------------------------------------
(* The key of a canonical group *)

MaxCanonRows == 2

\* Simple rows of parent_sku P under the skus A and B that differ in
\* category and brand (also only in case and padding, and in where the "_"
\* between them falls), in volume and in flavor.
CanonCatRows ==
    {CatRow(sku, sSimple, sP, sW, <<>>, cb[1], cb[2], flavor, volume, <<>>,
            <<"0">>, <<>>) :
        sku \in {sA, sB},
        cb \in {<<sKit, <<"V">>>>, <<<<" ", "k", "i", "t">>, <<"v", " ">>>>,
                <<<<"a", "_", "b">>, <<"c">>>>, <<<<"a">>, <<"b", "_", "c">>>>},
        flavor \in {<<>>, <<"3", "0">>, sIce},
        volume \in {<<>>, <<"3", "0">>, <<"0">>}}

InitCanon ==
    \E cat \in SeqsUpTo(CanonCatRows, MaxCanonRows) :
        /\ UniqueSkus(cat)
        /\ Start(DuoFileAR,
                 <<InvRow(sA, <<"1">>, <<"1">>, <<>>, <<>>),
                   InvRow(sB, <<"2">>, <<"2">>, <<>>, <<>>)>>, cat)

SpecCanon == InitCanon /\ [][NextPipeline]_vars

\* A text trimmed and lowercased.
Norm(v) == Lower(Strip(v))

\* The meaningful ones of the four attributes of a record, in the order
\* volume, nicotine_level, flavor, resistance.
MeaningfulValues(r) ==
    SelectSeq(<<Norm(r.volume), Norm(r.nicotine_level), Norm(r.flavor),
                Norm(r.resistance)>>, LAMBDA v : ~Blank(v))

RECURSIVE BarJoined(_)
\* Every value of the list, each after " | ".
BarJoined(vals) ==
    IF vals = <<>> THEN <<>>
    ELSE <<" ", "|", " ">> \o Head(vals) \o BarJoined(Tail(vals))

\* category_brand_parent_sku, or parent_sku alone when the category or the
\* brand is empty, followed by the meaningful values.
KeyText(r) ==
    (IF Norm(r.attribute_set_code) # <<>> /\ Norm(r.brand) # <<>>
     THEN Norm(r.attribute_set_code) \o <<"_">> \o Norm(r.brand) \o <<"_">>
     ELSE <<>>)
        \o Norm(r.parent_sku) \o BarJoined(MeaningfulValues(r))

\* Two rows of simple_products stand in one canonical group.
SameGroup(j, k) ==
    \E g \in 1..Len(products_by_key) :
        {simple_products[j].line, simple_products[k].line}
            \subseteq Lines(products_by_key[g].rows)

\* Two records agree on an attribute: both blank, or the same value.
AgreeOn(v, w) ==
    \/ Blank(v) /\ Blank(w)
    \/ ~Blank(v) /\ ~Blank(w) /\ Norm(v) = Norm(w)

\* C18 as stated: two simple records stand in one canonical group only if
\* they agree, trimmed and lowercased, on category, brand and parent_sku and
\* on each of volume, nicotine_level, flavor and resistance by itself.
C18_GroupKeyFaithful ==
    \A j, k \in 1..Len(simple_products) :
        SimpleProcessed(j) /\ SimpleProcessed(k) /\ SameGroup(j, k) =>
            LET x == simple_products[j]
                y == simple_products[k]
            IN  /\ Norm(x.attribute_set_code) = Norm(y.attribute_set_code)
                /\ Norm(x.brand) = Norm(y.brand)
                /\ Norm(x.parent_sku) = Norm(y.parent_sku)
                /\ AgreeOn(x.volume, y.volume)
                /\ AgreeOn(x.nicotine_level, y.nicotine_level)
                /\ AgreeOn(x.flavor, y.flavor)
                /\ AgreeOn(x.resistance, y.resistance)

\* C18 (amended): two simple records stand in one canonical group exactly
\* when each has a meaningful attribute and their key texts are equal: the
\* text category_brand_parent_sku (parent_sku alone when category or brand
\* is empty) followed by " | " and each meaningful value, in the order
\* volume, nicotine_level, flavor, resistance, the blank ones dropped.
C18_GroupedByKeyText ==
    \A j, k \in 1..Len(simple_products) :
        SimpleProcessed(j) /\ SimpleProcessed(k) =>
            LET x == simple_products[j]
                y == simple_products[k]
            IN  SameGroup(j, k) <=>
                    /\ ~AllBlank(x)
                    /\ ~AllBlank(y)
                    /\ KeyText(x) = KeyText(y)

\* C18: two processed records stand in one group, one with the value 30 as
\* its volume and no flavor, the other with 30 as its flavor and no volume.
C18_Witness ==
    \E j, k \in 1..Len(simple_products) :
        /\ SimpleProcessed(j) /\ SimpleProcessed(k)
        /\ SameGroup(j, k)
        /\ Norm(simple_products[j].volume) = <<"3", "0">>
        /\ Blank(simple_products[j].flavor)
        /\ Blank(simple_products[k].volume)
        /\ Norm(simple_products[k].flavor) = <<"3", "0">>

====
